---- MODULE Spec2Model ----
(***************************************************************************)
(* Model of the sandboxed file-operations layer of the refactoring swarm:  *)
(* SandboxManager.validate_path (src/src/tools/sandbox.py) and             *)
(* FileOperations.read_file / write_file (src/src/tools/file_ops.py),      *)
(* over a small POSIX filesystem with directories, symbolic links, inodes  *)
(* and byte contents.                                                      *)
(***************************************************************************)
EXTENDS Integers, Sequences, FiniteSets, TLC

VARIABLES
    fs,      \* the directory tree: canonical path -> entry (dir, file, link)
    data,    \* inode number -> bytes of the file
    cwd,     \* the process's current working directory (a canonical path)
    calls,   \* number of calls made so far
    last,    \* the call that has just returned (arguments, fault, outcome)
    prev,    \* the call before it
    pre,     \* the filesystem as it was when the last call started
    pr,      \* concurrent callers: process -> position inside write_file
    obs      \* what the concurrent reader has read

vars == <<fs, data, cwd, calls, last, prev, pre, pr, obs>>

----------------------------------------------------------------------------
(* Bounds *)

MaxCalls == 2

----------------------------------------------------------------------------
(* Paths.  A canonical path is the sequence of its components; <<>> is "/". *)
(* A candidate path, as a caller passes it, is absolute or relative and may *)
(* hold "." and ".." segments.                                             *)

SandboxRoot == <<"sb">>

NoPath == <<"<none>">>

Abs(segs) == [abs |-> TRUE, segs |-> segs]

Rel(segs) == [abs |-> FALSE, segs |-> segs]

Parent(p) == IF p = <<>> THEN <<>> ELSE SubSeq(p, 1, Len(p) - 1)

Name(p) == p[Len(p)]

Dir == [kind |-> "dir", ino |-> 0, target |-> <<>>]

File(i) == [kind |-> "file", ino |-> i, target |-> <<>>]

Link(t) == [kind |-> "link", ino |-> 0, target |-> t]

Exists(f, p) == p \in DOMAIN f

IsDir(f, p) == p \in DOMAIN f /\ f[p].kind = "dir"

IsFile(f, p) == p \in DOMAIN f /\ f[p].kind = "file"

Upd(f, k, v) == [x \in DOMAIN f \cup {k} |-> IF x = k THEN v ELSE f[x]]

Del(f, k) == [x \in DOMAIN f \ {k} |-> f[x]]

(* The bytes of the regular file at p. *)
Bytes(f, d, p) == d[f[p].ino]

(* Path.resolve(): the path made absolute against the working directory,   *)
(* then walked component by component as os.path.realpath does: "." is     *)
(* dropped, ".." removes the last resolved component, a symbolic link is   *)
(* replaced by its (absolute, canonical) target, and a component that does *)
(* not exist is kept as it stands (strict=False).                          *)
RECURSIVE Walk(_, _, _)
Walk(f, cur, segs) ==
    IF segs = <<>> THEN cur
    ELSE LET s == Head(segs)
             nxt == Append(cur, s)
         IN  IF s = "." THEN Walk(f, cur, Tail(segs))
             ELSE IF s = ".." THEN Walk(f, Parent(cur), Tail(segs))
             ELSE IF nxt \in DOMAIN f /\ f[nxt].kind = "link"
                  THEN Walk(f, f[nxt].target, Tail(segs))
                  ELSE Walk(f, nxt, Tail(segs))

Resolve(f, wd, raw) == Walk(f, IF raw.abs THEN <<>> ELSE wd, raw.segs)

(* PurePath.relative_to(root): succeeds iff root's components are a prefix *)
(* of the path's components; raises ValueError otherwise.                  *)
RelativeTo(full, root) ==
    /\ Len(root) <= Len(full)
    /\ SubSeq(full, 1, Len(root)) = root

(* validate_path as it would be with Path.absolute() in place of          *)
(* Path.resolve(): the check is made on the path as written.               *)
ValidatePathUnresolved(f, wd, raw) ==
    LET full_path == (IF raw.abs THEN <<>> ELSE wd) \o raw.segs
    IN  IF RelativeTo(full_path, SandboxRoot)
        THEN [ok |-> TRUE, path |-> full_path]
        ELSE [ok |-> FALSE, path |-> NoPath]

(* SandboxManager.validate_path: the resolved path, or SecurityError. *)
ValidatePath(f, wd, raw) ==
    LET full_path == Resolve(f, wd, raw)
    IN  IF RelativeTo(full_path, SandboxRoot)
        THEN [ok |-> TRUE, path |-> full_path]
        ELSE [ok |-> FALSE, path |-> NoPath]

----------------------------------------------------------------------------
(* Text.  A str is a sequence of code points, a file holds bytes. *)

LF == 10

CR == 13

EncodeError == <<-1>>

DecodeError == <<-1>>

NoContent == <<-2>>

(* str.encode of one code point. *)
EncodeChar(cp, enc) ==
    IF enc = "utf-8"
    THEN IF cp < 128 THEN <<cp>>
         ELSE <<192 + (cp \div 64), 128 + (cp % 64)>>
    ELSE IF enc = "latin-1"
    THEN IF cp < 256 THEN <<cp>> ELSE EncodeError
    ELSE IF cp < 128 THEN <<cp>> ELSE EncodeError

RECURSIVE Encode(_, _)
Encode(s, enc) ==
    IF s = <<>> THEN <<>>
    ELSE LET h == EncodeChar(Head(s), enc)
             t == Encode(Tail(s), enc)
         IN  IF h = EncodeError \/ t = EncodeError THEN EncodeError ELSE h \o t

(* bytes.decode: UnicodeDecodeError on a byte sequence invalid in enc. *)
RECURSIVE Decode(_, _)
Decode(b, enc) ==
    IF b = <<>> THEN <<>>
    ELSE LET h == Head(b)
         IN  IF enc = "latin-1"
             THEN <<h>> \o Decode(Tail(b), enc)
             ELSE IF h < 128
             THEN LET t == Decode(Tail(b), enc)
                  IN  IF t = DecodeError THEN DecodeError ELSE <<h>> \o t
             ELSE IF enc = "utf-8" /\ h >= 194 /\ h < 224 /\ Len(b) >= 2
                      /\ b[2] >= 128 /\ b[2] < 192
             THEN LET t == Decode(SubSeq(b, 3, Len(b)), enc)
                  IN  IF t = DecodeError THEN DecodeError
                      ELSE <<(h - 192) * 64 + (b[2] - 128)>> \o t
             ELSE DecodeError

(* Text-mode reading (newline=None): "\r\n" and a lone "\r" become "\n". *)
RECURSIVE UniversalNewlines(_)
UniversalNewlines(s) ==
    IF s = <<>> THEN <<>>
    ELSE IF Head(s) = CR
    THEN IF Len(s) >= 2 /\ s[2] = LF
         THEN <<LF>> \o UniversalNewlines(SubSeq(s, 3, Len(s)))
         ELSE <<LF>> \o UniversalNewlines(Tail(s))
    ELSE <<Head(s)>> \o UniversalNewlines(Tail(s))

(* content.count('\n') + 1 *)
RECURSIVE CountLF(_)
CountLF(s) ==
    IF s = <<>> THEN 0
    ELSE (IF Head(s) = LF THEN 1 ELSE 0) + CountLF(Tail(s))

LineCount(s) == CountLF(s) + 1

----------------------------------------------------------------------------
(* FileOperationResult and the exception handlers of the two operations. *)

EmptyMeta == [x \in {} |-> 0]

Result(success, content, filepath, error, metadata) ==
    [success |-> success, content |-> content, filepath |-> filepath,
     error |-> error, metadata |-> metadata]

NoResult == Result(FALSE, NoContent, Rel(<<>>), "None", EmptyMeta)

(* read_file's except clauses: SecurityError, then Exception. *)
ReadHandler(exc, raw) ==
    [outcome |-> "returned",
     result |-> Result(FALSE, NoContent, raw,
                       IF exc = "SecurityError"
                       THEN "Security violation"
                       ELSE "Unexpected error: " \o exc,
                       EmptyMeta)]

(* write_file with only its first except clause: any other exception      *)
(* leaves the call.                                                        *)
WriteHandlerSecurityOnly(exc, raw) ==
    IF exc = "SecurityError"
    THEN [outcome |-> "returned",
          result |-> Result(FALSE, NoContent, raw, "Security violation", EmptyMeta)]
    ELSE [outcome |-> "raised", result |-> NoResult]

(* write_file's handlers building their result with success=True. *)
WriteHandlerSuccessFlag(exc, raw) ==
    [outcome |-> "returned",
     result |-> Result(TRUE, NoContent, raw,
                       IF exc = "SecurityError"
                       THEN "Security violation"
                       ELSE "Write failed: " \o exc,
                       EmptyMeta)]

(* write_file's except clauses: SecurityError, then Exception. *)
WriteHandler(exc, raw) ==
    [outcome |-> "returned",
     result |-> Result(FALSE, NoContent, raw,
                       IF exc = "SecurityError"
                       THEN "Security violation"
                       ELSE "Write failed: " \o exc,
                       EmptyMeta)]

----------------------------------------------------------------------------
(* read_file, as one call.  fault = "read" is an I/O failure of read_text. *)

(* read_text that ignores the requested encoding and reads latin-1. *)
ReadTextLatin1(bytes, enc) ==
    [content |-> UniversalNewlines(Decode(bytes, "latin-1")),
     encoding |-> "latin-1"]

(* read_text(encoding), with the fallback to latin-1 on UnicodeDecodeError. *)
ReadText(bytes, enc) ==
    LET first == Decode(bytes, enc)
    IN  IF first = DecodeError
        THEN [content |-> UniversalNewlines(Decode(bytes, "latin-1")),
              encoding |-> "latin-1"]
        ELSE [content |-> UniversalNewlines(first), encoding |-> enc]

ReadFile(f, d, wd, raw, enc, fault) ==
    LET v == ValidatePath(f, wd, raw)
        safe_path == v.path
    IN  IF ~v.ok THEN ReadHandler("SecurityError", raw)
        ELSE IF ~Exists(f, safe_path)
        THEN [outcome |-> "returned",
              result |-> Result(FALSE, NoContent, Abs(safe_path),
                                "File not found", EmptyMeta)]
        ELSE IF ~IsFile(f, safe_path)
        THEN [outcome |-> "returned",
              result |-> Result(FALSE, NoContent, Abs(safe_path),
                                "Not a file", EmptyMeta)]
        ELSE IF fault = "read" THEN ReadHandler("OSError", raw)
        ELSE LET t == ReadText(Bytes(f, d, safe_path), enc)
             IN  [outcome |-> "returned",
                  result |-> Result(TRUE, t.content, Abs(safe_path), "None",
                                    [size_bytes |-> Len(Bytes(f, d, safe_path)),
                                     encoding |-> t.encoding,
                                     line_count |-> LineCount(t.content)])]

----------------------------------------------------------------------------
(* write_file, step by step.  A step acts on st = [fs, data, c]: the       *)
(* filesystem and the call's own context c (arguments, locals, position).  *)

NewCall(raw, content, enc, backup) ==
    [pc |-> "validate", raw |-> raw, content |-> content, enc |-> enc,
     backup |-> backup, safe |-> NoPath, bpath |-> NoPath, tmp |-> NoPath,
     fd |-> 0, off |-> 0, todo |-> <<>>, at |-> "end", outcome |-> "none",
     result |-> NoResult]

Idle == [NewCall(Rel(<<>>), <<>>, "utf-8", FALSE) EXCEPT !.pc = "idle"]

(* An exception raised inside the try block: the open temp file is closed  *)
(* and the handler builds what the call returns.                           *)
Raise(st, exc) ==
    LET h == WriteHandler(exc, st.c.raw)
    IN  [st EXCEPT !.c.pc = "done", !.c.fd = 0, !.c.at = st.c.pc,
                   !.c.outcome = h.outcome, !.c.result = h.result]

FreshIno(d) ==
    CHOOSE i \in 1..(Cardinality(DOMAIN d) + 1) :
        i \notin DOMAIN d /\ \A j \in 1..(i - 1) : j \in DOMAIN d

Prefixes(p) == {SubSeq(p, 1, n) : n \in 0..Len(p)}

(* Path.mkdir(parents=True, exist_ok=True) *)
MkdirP(f, p) ==
    IF \E q \in Prefixes(p) : Exists(f, q) /\ ~IsDir(f, q)
    THEN [ok |-> FALSE, fs |-> f]
    ELSE [ok |-> TRUE,
          fs |-> [x \in DOMAIN f \cup Prefixes(p) |->
                     IF x \in DOMAIN f THEN f[x] ELSE Dir]]

(* No temporary file: the content is written into the target itself. *)
TempPathInPlace(safe) == safe

(* safe_path.with_suffix(safe_path.suffix + ".tmp") *)
TempPath(safe) == Append(Parent(safe), Name(safe) \o ".tmp")

Digits == <<"0", "1", "2", "3">>

BackupName(safe, k) == Append(Parent(safe), Name(safe) \o ".bak" \o Digits[k])

(* create_backup: a byte-for-byte copy of a regular file at a sibling path *)
(* with the first free increasing suffix; a failure result otherwise.      *)
CreateBackup(f, d, path, fault) ==
    LET free == {k \in DOMAIN Digits : ~Exists(f, BackupName(path, k))}
        k == CHOOSE x \in free : \A y \in free : x <= y
        i == FreshIno(d)
    IN  IF fault \/ ~ValidatePath(f, <<>>, Abs(path)).ok \/ ~IsFile(f, path)
           \/ free = {}
        THEN [fs |-> f, data |-> d,
              result |-> Result(FALSE, NoContent, Abs(path), "IOError", EmptyMeta)]
        ELSE [fs |-> Upd(f, BackupName(path, k), File(i)),
              data |-> Upd(d, i, Bytes(f, d, path)),
              result |-> Result(TRUE, NoContent, Abs(path), "None",
                                [backup_path |-> BackupName(path, k)])]

StepValidate(st, wd) ==
    LET v == ValidatePath(st.fs, wd, st.c.raw)
    IN  IF v.ok THEN [st EXCEPT !.c.safe = v.path, !.c.pc = "mkdir"]
        ELSE Raise(st, "SecurityError")

StepMkdir(st, fault) ==
    LET m == MkdirP(st.fs, Parent(st.c.safe))
    IN  IF fault THEN Raise(st, "OSError")
        ELSE IF ~m.ok THEN Raise(st, "FileExistsError")
        ELSE [st EXCEPT !.fs = m.fs, !.c.pc = "backup"]

(* The backup step reading the backup's path under a key the result does  *)
(* not hold: backup_path stays None.                                       *)
StepBackupLosesPath(st, fault) ==
    IF st.c.backup /\ Exists(st.fs, st.c.safe)
    THEN LET b == CreateBackup(st.fs, st.data, st.c.safe, fault)
         IN  [st EXCEPT !.fs = b.fs, !.data = b.data, !.c.pc = "open"]
    ELSE [st EXCEPT !.c.pc = "open"]

(* The backup step treating a failed backup as fatal to the write. *)
StepBackupFatal(st, fault) ==
    IF st.c.backup /\ Exists(st.fs, st.c.safe)
    THEN LET b == CreateBackup(st.fs, st.data, st.c.safe, fault)
         IN  IF ~b.result.success THEN Raise(st, "FileOpError")
             ELSE [st EXCEPT !.fs = b.fs, !.data = b.data,
                             !.c.bpath = b.result.metadata.backup_path,
                             !.c.pc = "open"]
    ELSE [st EXCEPT !.c.pc = "open"]

(* The backup step of write_file (create_backup and safe_path.exists()). *)
StepBackup(st, fault) ==
    IF st.c.backup /\ Exists(st.fs, st.c.safe)
    THEN LET b == CreateBackup(st.fs, st.data, st.c.safe, fault)
         IN  [st EXCEPT !.fs = b.fs, !.data = b.data,
                        !.c.bpath = IF b.result.success
                                    THEN b.result.metadata.backup_path
                                    ELSE NoPath,
                        !.c.pc = "open"]
    ELSE [st EXCEPT !.c.pc = "open"]

(* open(temp_path, "w"): the file is created, or truncated if it exists. *)
StepOpen(st, fault) ==
    LET temp_path == TempPath(st.c.safe)
        i == FreshIno(st.data)
        opened == [st EXCEPT !.c.tmp = temp_path, !.c.pc = "write", !.c.off = 0,
                             !.c.todo = Encode(st.c.content, st.c.enc)]
    IN  IF fault THEN Raise(st, "PermissionError")
        ELSE IF IsDir(st.fs, temp_path) THEN Raise(st, "IsADirectoryError")
        ELSE IF ~IsDir(st.fs, Parent(temp_path)) THEN Raise(st, "FileNotFoundError")
        ELSE IF IsFile(st.fs, temp_path)
        THEN [opened EXCEPT !.data[st.fs[temp_path].ino] = <<>>,
                            !.c.fd = st.fs[temp_path].ino]
        ELSE [opened EXCEPT !.fs = Upd(st.fs, temp_path, File(i)),
                            !.data = Upd(st.data, i, <<>>),
                            !.c.fd = i]

(* write(2) at the file's own offset: bytes past the end extend the file, *)
(* a gap left by someone else's truncation reads as zero bytes.            *)
WriteAt(b, off, chunk) ==
    LET end == off + Len(chunk)
    IN  [i \in 1..(IF Len(b) > end THEN Len(b) ELSE end) |->
            IF i > off /\ i <= end THEN chunk[i - off]
            ELSE IF i <= Len(b) THEN b[i] ELSE 0]

(* f.write(content) and close: the text is encoded as a whole, then its    *)
(* bytes reach the open file k at a time; a fault strikes after k bytes.   *)
StepWrite(st, fault, k) ==
    LET todo == st.c.todo
        wrote == [st EXCEPT !.data[st.c.fd] = WriteAt(@, st.c.off, SubSeq(todo, 1, k)),
                            !.c.off = @ + k,
                            !.c.todo = SubSeq(todo, k + 1, Len(todo))]
    IN  IF todo = EncodeError THEN Raise(st, "UnicodeEncodeError")
        ELSE IF fault THEN Raise(wrote, "OSError")
        ELSE IF k = Len(todo) THEN [wrote EXCEPT !.c.pc = "replace", !.c.fd = 0]
        ELSE wrote

(* temp_path.replace(safe_path): rename(2) *)
StepReplace(st, fault) ==
    IF fault THEN Raise(st, "OSError")
    ELSE IF ~Exists(st.fs, st.c.tmp) THEN Raise(st, "FileNotFoundError")
    ELSE IF IsDir(st.fs, st.c.safe) THEN Raise(st, "IsADirectoryError")
    ELSE [st EXCEPT !.fs = Del(Upd(st.fs, st.c.safe, st.fs[st.c.tmp]), st.c.tmp),
                    !.c.pc = "stat"]

(* safe_path.stat(), the metadata and the success result. *)
StepStat(st, fault) ==
    IF fault THEN Raise(st, "OSError")
    ELSE IF ~Exists(st.fs, st.c.safe) THEN Raise(st, "FileNotFoundError")
    ELSE [st EXCEPT
            !.c.pc = "done",
            !.c.outcome = "returned",
            !.c.result =
                Result(TRUE, NoContent, Abs(st.c.safe), "None",
                       [size_bytes |-> Len(Bytes(st.fs, st.data, st.c.safe)),
                        encoding |-> st.c.enc,
                        line_count |-> LineCount(st.c.content),
                        backup_created |-> st.c.bpath # NoPath,
                        backup_path |-> st.c.bpath])]

Step(st, wd, fault, k) ==
    CASE st.c.pc = "validate" -> StepValidate(st, wd)
      [] st.c.pc = "mkdir"    -> StepMkdir(st, fault)
      [] st.c.pc = "backup"   -> StepBackup(st, fault)
      [] st.c.pc = "open"     -> StepOpen(st, fault)
      [] st.c.pc = "write"    -> StepWrite(st, fault, k)
      [] st.c.pc = "replace"  -> StepReplace(st, fault)
      [] st.c.pc = "stat"     -> StepStat(st, fault)

(* The whole call: every step in program order, with the fault (if any)    *)
(* striking at step faultAt; a write fault strikes after part bytes.       *)
RECURSIVE RunWrite(_, _, _, _)
RunWrite(st, wd, faultAt, part) ==
    IF st.c.pc = "done" THEN st
    ELSE RunWrite(Step(st, wd, st.c.pc = faultAt,
                       IF faultAt = "write" /\ st.c.todo # EncodeError
                       THEN part ELSE Len(st.c.todo)),
                  wd, faultAt, part)

(* Inodes no path and no open file refers to are reclaimed. *)
Reclaim(f, d, open) ==
    [i \in {j \in DOMAIN d : j \in open \/ \E p \in DOMAIN f : f[p] = File(j)}
        |-> d[i]]

----------------------------------------------------------------------------
(* The filesystem at start: "/", the sandbox root /sb, /etc/passwd outside *)
(* it, and /sb/link, a symbolic link planted in the sandbox that points to *)
(* /etc.  Inode 1 is /etc/passwd.                                          *)

BaseFs ==
    [p \in {<<>>, SandboxRoot, <<"etc">>, <<"etc", "passwd">>, <<"sb", "link">>} |->
        IF p = <<"etc", "passwd">> THEN File(1)
        ELSE IF p = <<"sb", "link">> THEN Link(<<"etc">>)
        ELSE Dir]

BaseData == [i \in {1} |-> <<114>>]

APy == <<"sb", "a.py">>

(* What /sb/a.py may hold at start: "o", or the single byte 0xE9, which is *)
(* "e acute" in latin-1 and invalid in utf-8.                              *)
OldBytes == {<<111>>, <<233>>}

NoCall ==
    [op |-> "none", raw |-> Rel(<<>>), content |-> <<>>, enc |-> "utf-8",
     backup |-> FALSE, fault |-> "none", at |-> "end", outcome |-> "none",
     result |-> NoResult, value |-> NoPath]

(* A stray /sb/a.py.tmp left in the sandbox by somebody else holds "t". *)
StrayBytes == <<116>>

WithFile(fd, p, b) ==
    LET i == FreshIno(fd.data)
    IN  [fs |-> Upd(fd.fs, p, File(i)), data |-> Upd(fd.data, i, b)]

InitialFiles ==
    LET base == [fs |-> BaseFs, data |-> BaseData]
        withA == {base} \cup {WithFile(base, APy, b) : b \in OldBytes}
    IN  withA \cup {WithFile(x, TempPath(APy), StrayBytes) : x \in withA}

InitFiles == \E x \in InitialFiles : fs = x.fs /\ data = x.data

InitRest ==
    /\ calls = 0
    /\ last = NoCall
    /\ prev = NoCall
    /\ pre = [fs |-> fs, data |-> data]
    /\ pr = [p \in {} |-> Idle]
    /\ obs = <<>>

Returned(call) ==
    /\ calls' = calls + 1
    /\ last' = call
    /\ prev' = last
    /\ pre' = [fs |-> fs, data |-> data]
    /\ UNCHANGED <<cwd, pr, obs>>

(* validate_path(raw): raises SecurityError or returns the resolved path. *)
DoValidate(raw) ==
    LET v == ValidatePath(fs, cwd, raw)
    IN  /\ calls < MaxCalls
        /\ UNCHANGED <<fs, data>>
        /\ Returned([NoCall EXCEPT !.op = "validate_path", !.raw = raw,
                                   !.outcome = IF v.ok THEN "returned" ELSE "raised",
                                   !.value = v.path])

(* read_file(raw, enc) *)
DoRead(raw, enc, fault) ==
    LET r == ReadFile(fs, data, cwd, raw, enc, fault)
    IN  /\ calls < MaxCalls
        /\ UNCHANGED <<fs, data>>
        /\ Returned([NoCall EXCEPT !.op = "read_file", !.raw = raw, !.enc = enc,
                                   !.fault = fault, !.outcome = r.outcome,
                                   !.result = r.result])

(* write_file(raw, content, enc, create_backup) *)
DoWrite(raw, content, enc, backup, faultAt, part) ==
    /\ calls < MaxCalls
    /\ \E st \in {RunWrite([fs |-> fs, data |-> data,
                           c |-> NewCall(raw, content, enc, backup)],
                          cwd, faultAt, part)} :
        /\ fs' = st.fs
        /\ data' = Reclaim(st.fs, st.data, {})
        /\ Returned([NoCall EXCEPT !.op = "write_file", !.raw = raw,
                                   !.content = content, !.enc = enc,
                                   !.backup = backup, !.fault = faultAt,
                                   !.at = st.c.at, !.outcome = st.c.outcome,
                                   !.result = st.c.result])

----------------------------------------------------------------------------
(* Spec: one caller working in the sandbox root, writing /sb/a.py and      *)
(* reading it and its sibling /sb/a.py.tmp, with I/O faults.               *)

(* "e acute, newline" in utf-8 (three bytes), "e acute, carriage return"   *)
(* in latin-1, and "e acute" in ascii, which cannot encode it.             *)
Texts ==
    { [content |-> <<233, 10>>, enc |-> "utf-8"],
      [content |-> <<233, 13>>, enc |-> "latin-1"],
      [content |-> <<233>>, enc |-> "ascii"] }

Passwd == <<"etc", "passwd">>

(* read_file is called on /sb/a.py, its sibling /sb/a.py.tmp, the sandbox  *)
(* root (a directory) and /etc/passwd (outside the sandbox).               *)
ReadTargets == {Abs(APy), Abs(TempPath(APy)), Abs(SandboxRoot), Abs(Passwd)}

WriteFaults == {"none", "mkdir", "backup", "open", "write", "replace", "stat"}

(* write_file is called on /sb/a.py with a fault at any step, and on       *)
(* /etc/passwd, where it ends at validate_path before any step can fail.   *)
WriteInputs ==
    {[raw |-> Abs(APy), faultAt |-> f] : f \in WriteFaults}
        \cup {[raw |-> Abs(Passwd), faultAt |-> "none"]}

(* How many bytes a failing write may have written before it fails. *)
Parts(t, faultAt) ==
    IF faultAt = "write" /\ Encode(t.content, t.enc) # EncodeError
    THEN 0..(Len(Encode(t.content, t.enc)) - 1)
    ELSE {0}

Init ==
    /\ InitFiles
    /\ cwd = SandboxRoot
    /\ InitRest

ReadCall ==
    \E raw \in ReadTargets, enc \in {"utf-8", "latin-1"}, fault \in {"none", "read"} :
        DoRead(raw, enc, fault)

WriteCall ==
    \E w \in WriteInputs, t \in Texts, backup \in BOOLEAN :
        \E part \in Parts(t, w.faultAt) :
            DoWrite(w.raw, t.content, t.enc, backup, w.faultAt, part)

Next == ReadCall \/ WriteCall

Spec == Init /\ [][Next]_vars

----------------------------------------------------------------------------
(* SpecPath: one caller in any working directory passing candidate paths   *)
(* of every shape to validate_path and write_file.                         *)

Candidates ==
    { Rel(<<"a.py">>), Abs(<<"sb", "a.py">>), Rel(<<"sb", "a.py">>),
      Rel(<<"d", "n.py">>), Abs(<<"sb">>), Rel(<<"..", "..", "etc", "passwd">>),
      Rel(<<"..", "etc", "x">>), Abs(<<"etc", "passwd">>),
      Abs(<<"sb", "link", "passwd">>), Rel(<<"link", "x">>),
      Abs(<<"sb", "..", "sbx", "a.py">>), Abs(<<"sb", "d", "..", ".", "a.py">>) }

WorkDirs == {SandboxRoot, <<>>, <<"sb", "d">>}

InitPath ==
    /\ InitFiles
    /\ cwd \in WorkDirs
    /\ InitRest

ValidatePathCall == \E raw \in Candidates : DoValidate(raw)

WritePathCall ==
    \E raw \in Candidates, backup \in BOOLEAN :
        DoWrite(raw, <<120>>, "utf-8", backup, "none", 0)

NextPath == ValidatePathCall \/ WritePathCall

SpecPath == InitPath /\ [][NextPath]_vars

----------------------------------------------------------------------------
(* SpecConc: two callers run write_file on /sb/a.py at the same time, each *)
(* a step at a time, while a reader reads the file.  No fault is injected: *)
(* a step fails only where the filesystem makes it fail.                   *)

Writers == {1, 2}

OldText == <<111, 111>>

ConcText == [p \in Writers |-> IF p = 1 THEN <<97, 97>> ELSE <<98, 98>>]

InitConc ==
    /\ \E x \in {WithFile([fs |-> BaseFs, data |-> BaseData], APy, OldText)} :
          fs = x.fs /\ data = x.data
    /\ cwd = SandboxRoot
    /\ calls = 0
    /\ last = NoCall
    /\ prev = NoCall
    /\ pre = [fs |-> fs, data |-> data]
    /\ pr = [p \in Writers |-> Idle]
    /\ obs = NoContent

OpenFiles(procs) == {procs[q].fd : q \in DOMAIN procs} \ {0}

(* Process p takes the next step of its write_file call; a write step      *)
(* hands k bytes to the file.                                              *)
Advance(p, k) ==
    /\ \E st \in {Step([fs |-> fs, data |-> data, c |-> pr[p]], cwd, FALSE, k)} :
          /\ fs' = st.fs
          /\ pr' = [pr EXCEPT ![p] = st.c]
          /\ data' = Reclaim(st.fs, st.data, OpenFiles([pr EXCEPT ![p] = st.c]))
    /\ UNCHANGED <<cwd, calls, last, prev, pre, obs>>

Begin(p) ==
    /\ pr[p].pc = "idle"
    /\ calls < MaxCalls
    /\ \E backup \in BOOLEAN :
          pr' = [pr EXCEPT ![p] = NewCall(Abs(APy), ConcText[p], "utf-8", backup)]
    /\ calls' = calls + 1
    /\ UNCHANGED <<fs, data, cwd, last, prev, pre, obs>>

Validate(p) ==
    /\ pr[p].pc = "validate"
    /\ Advance(p, 0)

Mkdir(p) ==
    /\ pr[p].pc = "mkdir"
    /\ Advance(p, 0)

Backup(p) ==
    /\ pr[p].pc = "backup"
    /\ Advance(p, 0)

OpenTemp(p) ==
    /\ pr[p].pc = "open"
    /\ Advance(p, 0)

WriteTemp(p) ==
    /\ pr[p].pc = "write"
    /\ \E k \in 1..Len(pr[p].todo) : Advance(p, k)

Replace(p) ==
    /\ pr[p].pc = "replace"
    /\ Advance(p, 0)

Stat(p) ==
    /\ pr[p].pc = "stat"
    /\ Advance(p, 0)

Return(p) ==
    /\ pr[p].pc = "done"
    /\ pr' = [pr EXCEPT ![p] = Idle]
    /\ last' = [NoCall EXCEPT !.op = "write_file", !.raw = pr[p].raw,
                              !.content = pr[p].content, !.enc = pr[p].enc,
                              !.backup = pr[p].backup, !.at = pr[p].at,
                              !.outcome = pr[p].outcome, !.result = pr[p].result]
    /\ prev' = last
    /\ UNCHANGED <<fs, data, cwd, calls, pre, obs>>

(* A reader's read_file("/sb/a.py") at this instant. *)
Reader ==
    /\ \E r \in {ReadFile(fs, data, cwd, Abs(APy), "utf-8", "none")} :
          obs' = IF r.result.success THEN r.result.content ELSE NoContent
    /\ UNCHANGED <<fs, data, cwd, calls, last, prev, pre, pr>>

NextConc ==
    \/ \E p \in Writers :
          \/ Begin(p)
          \/ Validate(p)
          \/ Mkdir(p)
          \/ Backup(p)
          \/ OpenTemp(p)
          \/ WriteTemp(p)
          \/ Replace(p)
          \/ Stat(p)
          \/ Return(p)
    \/ Reader

SpecConc == InitConc /\ [][NextConc]_vars

----------------------------------------------------------------------------
(* Properties.  They speak of the call that has just returned (last), the  *)
(* filesystem it started from (pre) and the filesystem now (fs, data).     *)

(* The path the last call's argument resolved to when the call started. *)
LastPath == Resolve(pre.fs, cwd, last.raw)

(* p is the sandbox root or lies below it. *)
InSandbox(p) == \E n \in 0..Len(p) : SubSeq(p, 1, n) = SandboxRoot

Encodable(content, enc) == Encode(content, enc) # EncodeError

HasCR(content) == \E i \in 1..Len(content) : content[i] = CR

Unchanged == fs = pre.fs /\ data = pre.data

(* Path q has the same existence, kind and content as before the call. *)
SameAsBefore(q) ==
    /\ Exists(fs, q) <=> Exists(pre.fs, q)
    /\ Exists(fs, q) =>
          /\ fs[q].kind = pre.fs[q].kind
          /\ fs[q].target = pre.fs[q].target
          /\ fs[q].kind = "file" => Bytes(fs, data, q) = Bytes(pre.fs, pre.data, q)

Returns(op) == last.op = op /\ last.outcome = "returned"

(* C1: a candidate path (with "..", absolute, or through a symbolic link)  *)
(* that resolves outside the sandbox root makes validate_path raise        *)
(* SecurityError and write_file return a security failure, and the         *)
(* filesystem is the same after the call as before it.                     *)
C1_EscapeRejected ==
    (last.op \in {"validate_path", "write_file"} /\ ~InSandbox(LastPath)) =>
        /\ Unchanged
        /\ last.op = "validate_path" => last.outcome = "raised"
        /\ last.op = "write_file" =>
              /\ last.outcome = "returned"
              /\ ~last.result.success
              /\ last.result.error = "Security violation"

C1_Witness ==
    /\ last.op = "write_file"
    /\ last.raw = Abs(<<"sb", "link", "passwd">>)
    /\ LastPath = Passwd
    /\ last.result.error = "Security violation"
    /\ prev.op = "write_file" /\ prev.result.success

(* C2: whatever the interleaving of the concurrent write_file calls on     *)
(* /sb/a.py, a read of it sees the whole old content or the whole content  *)
(* of one of the writers.                                                  *)
C2_ReadsSeeWholeContent ==
    obs \in {NoContent, OldText} \cup {ConcText[p] : p \in Writers}

(* C3: a write_file on an existing regular file that fails at the replace, *)
(* after the temporary file was written, leaves the file with its old      *)
(* content and reports failure.                                            *)
C3_FailedReplaceKeepsOld ==
    (last.op = "write_file" /\ last.at = "replace" /\ InSandbox(LastPath)
        /\ IsFile(pre.fs, LastPath)) =>
        /\ IsFile(fs, LastPath)
        /\ Bytes(fs, data, LastPath) = Bytes(pre.fs, pre.data, LastPath)
        /\ last.outcome = "returned"
        /\ ~last.result.success

C3_Witness ==
    /\ last.op = "write_file" /\ last.fault = "replace" /\ last.at = "replace"
    /\ IsFile(pre.fs, APy)
    /\ Bytes(pre.fs, pre.data, APy) # Encode(last.content, last.enc)
    /\ ~last.result.success

(* The last call was write_file with create_backup=true on a regular file  *)
(* of the sandbox, with content the encoding can encode and no directory   *)
(* in the way of its temporary file.                                       *)
BackupCase ==
    /\ last.op = "write_file" /\ last.backup
    /\ InSandbox(LastPath) /\ IsFile(pre.fs, LastPath)
    /\ Encodable(last.content, last.enc)
    /\ ~IsDir(pre.fs, TempPath(LastPath))

(* C4: write_file(P, C2, create_backup=true) on a regular file P holding   *)
(* C1, no step of it failing, returns success with backup_created true,    *)
(* the backup at the reported path holds C1 and P holds C2.                *)
C4_BackupHoldsOld ==
    (BackupCase /\ last.fault = "none") =>
        /\ last.outcome = "returned"
        /\ last.result.success
        /\ last.result.metadata.backup_created
        /\ IsFile(fs, last.result.metadata.backup_path)
        /\ ~Exists(pre.fs, last.result.metadata.backup_path)
        /\ Bytes(fs, data, last.result.metadata.backup_path)
              = Bytes(pre.fs, pre.data, LastPath)
        /\ IsFile(fs, LastPath)
        /\ Bytes(fs, data, LastPath) = Encode(last.content, last.enc)

C4_Witness ==
    /\ BackupCase /\ last.fault = "none"
    /\ last.result.success
    /\ Bytes(pre.fs, pre.data, LastPath) # Encode(last.content, last.enc)
    /\ last.result.metadata.backup_path = BackupName(APy, 2)

(* The last two calls were a successful write_file(P, C, enc) and then a   *)
(* read_file(P, enc) that met no I/O fault.                                *)
WriteThenRead ==
    /\ prev.op = "write_file" /\ prev.outcome = "returned" /\ prev.result.success
    /\ last.op = "read_file" /\ last.fault = "none"
    /\ last.enc = prev.enc
    /\ Abs(LastPath) = prev.result.filepath

(* C5 as stated: the read returns success with content equal to C. *)
C5_RoundTrip ==
    WriteThenRead =>
        /\ Returns("read_file")
        /\ last.result.success
        /\ last.result.content = prev.content

(* C5, amended: the read returns success; its content is C when C holds no *)
(* carriage return, and C with "\r\n" and "\r" turned into "\n" otherwise. *)
C5_RoundTripNoCR ==
    WriteThenRead =>
        /\ Returns("read_file")
        /\ last.result.success
        /\ ~HasCR(prev.content) => last.result.content = prev.content
        /\ HasCR(prev.content) =>
              last.result.content = UniversalNewlines(prev.content)

C5_Witness ==
    /\ WriteThenRead
    /\ ~HasCR(prev.content)
    /\ Len(Encode(prev.content, prev.enc)) > Len(prev.content)
    /\ last.result.content = prev.content

(* C6: a relative path with no escaping segment is taken relative to the   *)
(* sandbox root whatever the working directory: write_file on it succeeds  *)
(* and the file at root/path holds the content.                            *)
C6_RelativeToRoot ==
    LET target == SandboxRoot \o last.raw.segs
    IN  ( /\ last.op = "write_file" /\ ~last.raw.abs
          /\ Walk(pre.fs, SandboxRoot, last.raw.segs) = target
          /\ ~IsDir(pre.fs, target)
          /\ ~IsDir(pre.fs, TempPath(target))
          /\ MkdirP(pre.fs, Parent(target)).ok
          /\ Encodable(last.content, last.enc) /\ last.fault = "none" ) =>
            /\ last.outcome = "returned"
            /\ last.result.success
            /\ IsFile(fs, target)
            /\ Bytes(fs, data, target) = Encode(last.content, last.enc)

(* C7: when the backup of an existing target fails, write_file still       *)
(* writes: the target holds the new content, the call returns success and  *)
(* the metadata records backup_created = false.                            *)
C7_BackupFailureNotFatal ==
    (BackupCase /\ last.fault = "backup") =>
        /\ last.outcome = "returned"
        /\ last.result.success
        /\ ~last.result.metadata.backup_created
        /\ last.result.metadata.backup_path = NoPath
        /\ IsFile(fs, LastPath)
        /\ Bytes(fs, data, LastPath) = Encode(last.content, last.enc)

C7_Witness ==
    /\ BackupCase /\ last.fault = "backup"
    /\ last.result.success
    /\ Bytes(pre.fs, pre.data, LastPath) # Encode(last.content, last.enc)
    /\ \A k \in DOMAIN Digits : ~Exists(fs, BackupName(LastPath, k))

(* C8: every read_file and write_file call returns a FileOperationResult,  *)
(* whatever the path and whichever step fails; no exception leaves it.     *)
C8_AlwaysReturns ==
    last.op \in {"read_file", "write_file"} => last.outcome = "returned"

C8_Witness ==
    /\ last.op = "write_file" /\ last.at = "replace" /\ last.fault = "replace"
    /\ last.outcome = "returned"
    /\ prev.op = "write_file" /\ prev.at = "validate"

(* C9: in every result returned, success implies no error and failure      *)
(* implies no content.                                                     *)
C9_ResultInvariant ==
    (last.op \in {"read_file", "write_file"} /\ last.outcome = "returned") =>
        /\ last.result.success => last.result.error = "None"
        /\ ~last.result.success => last.result.content = NoContent

C9_Witness ==
    /\ last.op = "write_file" /\ last.at = "write" /\ ~last.result.success
    /\ last.result.error # "None"
    /\ prev.op = "read_file" /\ prev.result.success
    /\ prev.result.content # NoContent

(* C10: after write_file(P) returns, every path other than P and a newly   *)
(* created backup of P exists and holds what it did before the call: a     *)
(* sibling P.tmp that was there is untouched and no temporary file is left.*)
C10_Frame ==
    last.op = "write_file" =>
        \A q \in DOMAIN fs \cup DOMAIN pre.fs :
            \/ q = LastPath
            \/ ~Exists(pre.fs, q) /\ \E k \in DOMAIN Digits : q = BackupName(LastPath, k)
            \/ SameAsBefore(q)

====
